---- MODULE Spec2Model ----
(***************************************************************************)
(* A model of the document structuring and hybrid retrieval pipeline:      *)
(*   naive_chunking            src/src/utils/chunking.py                   *)
(*   detect_irrelevant_pages   src/src/ingestor/pdf_util.py                *)
(*   process_pdf               src/src/ingestor/pdf_util.py                *)
(*   generate_sql_query        src/src/coordinator/utils.py                *)
(*   retrieve_context          src/src/coordinator/utils.py                *)
(*   add_manual                src/src/ingestor_app.py                     *)
(*   add_manual_chunks_to_db   src/src/ingestor/utils.py                   *)
(*   add_ticket_to_db          src/src/ingestor/utils.py                   *)
(* Every function has a specification of its own (SpecChunk, SpecScan,     *)
(* SpecToc, SpecPdf, SpecQuery): its Init draws the function's inputs from *)
(* bounded sets and parks the other functions, its actions are the steps   *)
(* of the function's code.  SpecStore runs one operation that writes to    *)
(* the store and then one retrieval, each with the failures its steps can  *)
(* raise; SpecLimits runs the statements on tables longer than their       *)
(* limits; SpecBuild follows the query string into the statement.          *)
(*                                                                         *)
(* Strings.  A Python string is a sequence of atoms.  An atom is either    *)
(* the separator SP (one blank) or the name of a text supplied by the      *)
(* caller, whose length and first character are given by AtomLen and       *)
(* StartsHash.  Concatenation is \o, len() is StrLen, and two strings are  *)
(* equal when their atom sequences are.                                    *)
(*                                                                         *)
(* Optional values.  Python's None is the empty sequence and a value v is  *)
(* the one-element sequence <<v>>.                                         *)
(***************************************************************************)
EXTENDS Integers, Sequences, FiniteSets, TLC

VARIABLES
    \* ---- naive_chunking
    text,             \* the argument: a sequence of [t, n] (segment text, page)
    overlap,          \* the argument overlap
    ck_pc,            \* "off", "loop", "done"
    ck_i,             \* how many segments the for loop has consumed
    current_string,
    last_str,
    page_num,
    output_dict,      \* a Python dict in insertion order: a sequence of [k, v]
    output,           \* the returned list of [text, page_no]
    \* ---- detect_irrelevant_pages
    d_focus,          \* the part of the input space explored: "scan" or "toc"
    n_pages,          \* len(doc)
    d_pc,             \* "off", "scan", "toc", "done"
    d_page_num,       \* the index of the next page of the page loop
    page,             \* the page examined last: what its text matches, and
                      \* the outcome of detect(text)
    pages_to_remove,
    in_toc_section,
    consecutive_toc_count,
    toc,              \* the result of extract_table_of_contents(doc)
    toc_i,            \* the index i + 1 of the next entry of the entry loop
    \* ---- process_pdf
    doc_items,        \* result.document.iterate_items(): a sequence of items
    doc_sizes,        \* result.document.pages: page_no -> [width, height]
    tables,           \* the argument tables
    big_tables,       \* the argument big_tables
    pages_to_ignore,  \* the argument, then the result of get_fullpage_tables
    p_pc,             \* "off", "start", "loop", "done"
    p_i,              \* how many items the for loop has consumed
    list_nesting_level,
    previous_level,
    in_list,
    current_list,     \* a sequence of strings
    current_list_page,
    elements,         \* a sequence of [text, page]
    \* ---- retrieve_context, generate_sql_query
    db,               \* the store: table name -> sequence of rows, id = index
    deviceType,       \* the argument deviceType
    query_embedding,  \* generate_embeddings(query_string)
    q_pc,             \* "off", "connect", "register", "embed", "manuals",
                      \* "tickets", "return", "done"
    searches,         \* the rows of the UNION ALL of the statement run last
    manuals,          \* cur.fetchall() of the manuals statement
    tickets,          \* cur.fetchall() of the tickets statement
    \* ---- the connection and the outcome of the operation on the store
    client,           \* "unbound", "open", "closed"
    closes,           \* how many times client.close() has run
    outcome,          \* "running", "returned", "raised"
    failed,           \* the step that raised: "none", "validation", "connect",
                      \* "embedding", "statement"
    \* ---- add_manual, add_manual_chunks_to_db, add_ticket_to_db
    i_op,             \* "off", "none", "add_manual", "add_ticket"
    i_pc,             \* "off", "chunking", "connect", "ddl", "embed",
                      \* "finally", "count", "done"
    chunks,           \* the argument chunks, for a ticket the one summary
    devicetype,       \* the argument devicetype
    chunk_list,       \* the rows built for the insert
    added_docs_count,
    \* ---- generate_sql_query, the text of the statement
    query_string,     \* the raw query string: a sequence of characters
    query_str,        \* the local query_str
    sql_query,        \* the search string as it stands in sql_query
    g_pc,             \* "off", "start", "done"
    g_table_name,     \* the argument table_name
    g_deviceType,     \* the argument deviceType: a sequence of characters
    sql_where         \* the filters on deviceType as they stand in sql_query

ckvars == <<text, overlap, ck_pc, ck_i, current_string, last_str, page_num,
            output_dict, output>>

dvars == <<d_focus, n_pages, d_pc, d_page_num, page, pages_to_remove,
           in_toc_section, consecutive_toc_count, toc, toc_i>>

pvars == <<doc_items, doc_sizes, tables, big_tables, pages_to_ignore, p_pc, p_i,
           list_nesting_level, previous_level, in_list, current_list,
           current_list_page, elements>>

qvars == <<db, deviceType, query_embedding, q_pc, searches, manuals, tickets>>

svars == <<client, closes, outcome, failed>>

ivars == <<i_op, i_pc, chunks, devicetype, chunk_list, added_docs_count>>

gvars == <<query_string, query_str, sql_query, g_pc, g_table_name, g_deviceType,
           sql_where>>

vars == <<ckvars, dvars, pvars, qvars, svars, ivars, gvars>>

\* what the steps of one function leave alone: the state of the others
notck == <<dvars, pvars, qvars, svars, ivars, gvars>>

notd == <<ckvars, pvars, qvars, svars, ivars, gvars>>

notp == <<ckvars, dvars, qvars, svars, ivars, gvars>>

notq == <<ckvars, dvars, pvars, ivars, gvars>>

noti == <<ckvars, dvars, pvars, deviceType, query_embedding, q_pc, searches,
          manuals, tickets, gvars>>

notg == <<ckvars, dvars, pvars, qvars, svars, ivars>>

-----------------------------------------------------------------------------
(* Bounds of the model *)

MaxSegs == 3

MaxPages == 21

MaxToc == 3

MaxItems == 3

MaxRows == 3

MaxDocSegs == 2

MaxStoreRows == 1

MaxQueryLen == 3

MaxDeviceLen == 2

MaxOver == 2

-----------------------------------------------------------------------------
(* Strings and optional values *)

None == << >>

Some(v) == <<v>>

SP == "SP"

\* The texts a caller may supply.  "h" is a heading line such as "# Setup",
\* "s" is the one-character text "#", "a", "b" and "x" are plain paragraphs.
Texts == {"h", "s", "a", "b", "x"}

AtomLen(a) ==
    CASE a = SP  -> 1
      [] a = "h" -> 1250
      [] a = "s" -> 1
      [] a = "a" -> 1250
      [] a = "b" -> 2600
      [] a = "x" -> 10

\* t[0:1] == "#"
StartsHash(s) == s # << >> /\ s[1] \in {"h", "s"}

RECURSIVE StrLen(_)
StrLen(s) == IF s = << >> THEN 0 ELSE AtomLen(Head(s)) + StrLen(Tail(s))

Str(a) == <<a>>

-----------------------------------------------------------------------------
(* naive_chunking *)

max_len == 2500

DictHas(d, k) == \E j \in 1..Len(d) : d[j].k = k

\* d[k] = v : a present key keeps its place and takes the new value, a new
\* key is appended.
DictSet(d, k, v) ==
    IF DictHas(d, k)
    THEN [j \in 1..Len(d) |-> IF d[j].k = k THEN [k |-> k, v |-> v] ELSE d[j]]
    ELSE Append(d, [k |-> k, v |-> v])

\* if page_num is not None: output_dict[current_string] = page_num
SealNever(d, cur, pn) == d

SealOpen(d, cur, pn) == IF pn # None THEN DictSet(d, cur, pn) ELSE d

\* the test for a header
IsHeader(t) == StrLen(t) > 1 /\ StartsHash(t)

\* the test that the segment still fits
Fits(cur, t) == StrLen(cur) + StrLen(t) <= max_len

\* current_string += f' {t}'
Appended(cur, t) == cur \o <<SP>> \o t

\* f'{last_str} {t}' if overlap else t
Seed(ov, last, t) == IF ov THEN last \o <<SP>> \o t ELSE t

\* if page_num is None or n < page_num: page_num = n
NewPage(pn, n) == IF pn = None \/ n[1] < pn[1] THEN n ELSE pn

\* the pages of the segments: process_pdf tags every segment with the page_no
\* of an element, a positive integer
Pages == {Some(1), Some(2)}

Segments == [t : {Str(a) : a \in Texts}, n : Pages]

SeqsUpTo(S, k) == UNION {[1..m -> S] : m \in 0..k}

QueryOff ==
    /\ db = [manuals |-> << >>, tickets |-> << >>]
    /\ deviceType = "printer"
    /\ query_embedding = 1
    /\ q_pc = "off"
    /\ searches = {}
    /\ manuals = << >>
    /\ tickets = << >>

\* client.close() leaves the connection open
CloseLeaks(c) == c

\* client.close()
Close(c) == "closed"

ConnOff ==
    /\ client = "unbound"
    /\ closes = 0
    /\ outcome = "running"
    /\ failed = "none"

IngestOff ==
    /\ i_op = "off"
    /\ i_pc = "off"
    /\ chunks = << >>
    /\ devicetype = "printer"
    /\ chunk_list = << >>
    /\ added_docs_count = 0

BuildOff ==
    /\ query_string = << >>
    /\ query_str = << >>
    /\ sql_query = << >>
    /\ g_pc = "off"
    /\ g_table_name = "off"
    /\ g_deviceType = << >>
    /\ sql_where = << >>

StoreOff == ConnOff /\ IngestOff /\ BuildOff

PdfOff ==
    /\ doc_items = << >>
    /\ doc_sizes = << >>
    /\ tables = FALSE
    /\ big_tables = FALSE
    /\ pages_to_ignore = {}
    /\ p_pc = "off"
    /\ p_i = 0
    /\ list_nesting_level = 0
    /\ previous_level = 0
    /\ in_list = FALSE
    /\ current_list = << >>
    /\ current_list_page = None
    /\ elements = << >>

DetectOff ==
    /\ d_focus = "off"
    /\ n_pages = 0
    /\ d_pc = "off"
    /\ d_page_num = 0
    /\ page = [lang |-> None, few_words |-> FALSE, byline |-> FALSE,
               notices |-> FALSE, toc_ind |-> FALSE, page_numbers |-> FALSE]
    /\ pages_to_remove = {}
    /\ in_toc_section = FALSE
    /\ consecutive_toc_count = 0
    /\ toc = << >>
    /\ toc_i = 1

ChunkOff ==
    /\ text = << >>
    /\ overlap = FALSE
    /\ ck_pc = "off"
    /\ ck_i = 0
    /\ current_string = << >>
    /\ last_str = << >>
    /\ page_num = None
    /\ output_dict = << >>
    /\ output = << >>

InitChunk ==
    /\ DetectOff /\ PdfOff /\ QueryOff /\ StoreOff
    /\ text \in SeqsUpTo(Segments, MaxSegs)
    /\ overlap \in BOOLEAN
    /\ ck_pc = "loop"
    /\ ck_i = 0
    /\ current_string = << >>
    /\ last_str = << >>
    /\ page_num = None
    /\ output_dict = << >>
    /\ output = << >>

ChunkHeader ==
    /\ ck_pc = "loop" /\ ck_i < Len(text)
    /\ LET t == text[ck_i + 1].t
           n == text[ck_i + 1].n
       IN /\ IsHeader(t)
          /\ output_dict' = SealOpen(output_dict, current_string, page_num)
          /\ current_string' = t
          /\ page_num' = n
    /\ ck_i' = ck_i + 1
    /\ UNCHANGED <<text, overlap, ck_pc, last_str, output>>
    /\ UNCHANGED notck

ChunkAppend ==
    /\ ck_pc = "loop" /\ ck_i < Len(text)
    /\ LET t == text[ck_i + 1].t
           n == text[ck_i + 1].n
       IN /\ ~IsHeader(t)
          /\ Fits(current_string, t)
          /\ current_string' = Appended(current_string, t)
          /\ last_str' = t
          /\ page_num' = NewPage(page_num, n)
    /\ ck_i' = ck_i + 1
    /\ UNCHANGED <<text, overlap, ck_pc, output_dict, output>>
    /\ UNCHANGED notck

ChunkSplit ==
    /\ ck_pc = "loop" /\ ck_i < Len(text)
    /\ LET t == text[ck_i + 1].t
           n == text[ck_i + 1].n
       IN /\ ~IsHeader(t)
          /\ ~Fits(current_string, t)
          /\ output_dict' = DictSet(output_dict, current_string, page_num)
          /\ current_string' = Seed(overlap, last_str, t)
          /\ page_num' = n
    /\ ck_i' = ck_i + 1
    /\ UNCHANGED <<text, overlap, ck_pc, last_str, output>>
    /\ UNCHANGED notck

\* add last section to dict, build the list
ChunkReturn ==
    /\ ck_pc = "loop" /\ ck_i = Len(text)
    /\ LET d == DictSet(output_dict, current_string, page_num)
       IN /\ output_dict' = d
          /\ output' = [j \in 1..Len(d) |-> [text |-> d[j].k, page_no |-> d[j].v]]
    /\ ck_pc' = "done"
    /\ UNCHANGED <<text, overlap, ck_i, current_string, last_str, page_num>>
    /\ UNCHANGED notck

NextChunk ==
    \/ ChunkHeader
    \/ ChunkAppend
    \/ ChunkSplit
    \/ ChunkReturn

SpecChunk == InitChunk /\ [][NextChunk]_vars

-----------------------------------------------------------------------------
(* Properties of naive_chunking *)

\* the atoms of a string that are texts of segments
RECURSIVE TextAtoms(_)
TextAtoms(s) ==
    IF s = << >> THEN << >>
    ELSE IF Head(s) = SP THEN TextAtoms(Tail(s))
    ELSE <<Head(s)>> \o TextAtoms(Tail(s))

\* the concatenation of the chunk texts, in output order
RECURSIVE Concat(_)
Concat(out) == IF out = << >> THEN << >> ELSE Head(out).text \o Concat(Tail(out))

\* the segment texts of the input, in input order
RECURSIVE InputAtoms(_)
InputAtoms(inp) == IF inp = << >> THEN << >> ELSE Head(inp).t \o InputAtoms(Tail(inp))

\* a occurs in b as a subsequence
RECURSIVE IsSubseq(_, _)
IsSubseq(a, b) ==
    IF a = << >> THEN TRUE
    ELSE IF b = << >> THEN FALSE
    ELSE IF Head(a) = Head(b) THEN IsSubseq(Tail(a), Tail(b))
    ELSE IsSubseq(a, Tail(b))

SingleOversized(s) ==
    /\ Len(TextAtoms(s)) = 1
    /\ AtomLen(TextAtoms(s)[1]) > max_len

\* C1: every returned chunk has len(text) <= 2500, unless the chunk consists
\* of one single oversized segment (for both overlap settings).
ChunkSizeBound ==
    ck_pc = "done" =>
        \A j \in 1..Len(output) :
            StrLen(output[j].text) <= max_len \/ SingleOversized(output[j].text)

\* C2 as stated: every segment whose text begins with '#', of any length,
\* starts a new chunk, and the accumulator that was open before it is sealed.
HeadingBoundaryAnyLength ==
    [][(ck_pc = "loop" /\ ck_i < Len(text) /\ StartsHash(text[ck_i + 1].t)) =>
         /\ current_string' = text[ck_i + 1].t
         /\ (current_string # << >> => DictHas(output_dict', current_string))]_vars

HeadersOnlyFirst ==
    \A s \in {current_string} \cup {output_dict[j].k : j \in 1..Len(output_dict)} :
        \A k \in 2..Len(s) : ~(StartsHash(<<s[k]>>) /\ AtomLen(s[k]) > 1)

\* C2 as amended: every segment whose text begins with '#' and is longer than
\* one character starts a new chunk: the accumulator becomes exactly that
\* text with that segment's page, the accumulator open before it is stored
\* in the output under its page if a page was recorded for it, and no such
\* text ever stands anywhere but at the start of an accumulator or chunk.
HeadingBoundary ==
    /\ []HeadersOnlyFirst
    /\ [][(/\ ck_pc = "loop" /\ ck_i < Len(text)
           /\ StartsHash(text[ck_i + 1].t) /\ StrLen(text[ck_i + 1].t) > 1) =>
            /\ current_string' = text[ck_i + 1].t
            /\ page_num' = text[ck_i + 1].n
            /\ (page_num # None =>
                   \E j \in 1..Len(output_dict') :
                       output_dict'[j] = [k |-> current_string, v |-> page_num])]_vars

\* a heading has just been taken while an accumulator with a page was open
HeadingBoundaryWitness ==
    /\ ck_pc = "loop" /\ ck_i >= 2
    /\ text[ck_i].t = Str("h") /\ current_string = Str("h")
    /\ \E j \in 1..Len(output_dict) : Len(output_dict[j].k) >= 2

\* C3: the chunk texts, concatenated in output order, hold the input segment
\* texts in input order, each at least once, and exactly once without overlap.
ChunkOrdering ==
    ck_pc = "done" =>
        IF overlap
        THEN IsSubseq(InputAtoms(text), TextAtoms(Concat(output)))
        ELSE TextAtoms(Concat(output)) = InputAtoms(text)

\* C4: no returned chunk has empty text.
NoEmptyChunk ==
    ck_pc = "done" => \A j \in 1..Len(output) : output[j].text # << >>

\* the next segment is appended to the accumulator by this step
AppendStep ==
    /\ ck_pc = "loop" /\ ck_i < Len(text) /\ ck_i' = ck_i + 1
    /\ current_string' = current_string \o <<SP>> \o text[ck_i + 1].t

\* every entry of d is an entry of e, with a page that is not later
PagesKept(d, e) ==
    \A j \in 1..Len(d) : \E m \in 1..Len(e) :
        /\ e[m].k = d[j].k
        /\ d[j].v # None => e[m].v # None /\ e[m].v[1] <= d[j].v[1]

\* C18: the page of a chunk is the least page of the segments whose text it
\* holds: appending a segment leaves the accumulator with the smaller of its
\* page and the segment's, and a stored chunk keeps the earliest page also
\* when a chunk of the same text is stored after it.
ChunkPageAttribution ==
    [][/\ AppendStep /\ page_num # None =>
            /\ page_num' \in {page_num, text[ck_i + 1].n}
            /\ page_num'[1] <= page_num[1] /\ page_num'[1] <= text[ck_i + 1].n[1]
       /\ PagesKept(output_dict, output_dict')]_vars

\* the next segment is no heading and does not fit, and the segment before it
\* is no heading either
OverflowStep ==
    /\ ck_pc = "loop" /\ ck_i < Len(text) /\ ck_i >= 1
    /\ ~(StartsHash(text[ck_i + 1].t) /\ StrLen(text[ck_i + 1].t) > 1)
    /\ ~(StartsHash(text[ck_i].t) /\ StrLen(text[ck_i].t) > 1)
    /\ StrLen(current_string) + StrLen(text[ck_i + 1].t) > max_len

\* C19: when a segment t that is no heading does not fit, the new accumulator
\* is, with overlap, the text of the segment just before t, a blank and t -
\* also when that segment did not fit either - and without overlap t alone;
\* the page of the new chunk is the page of t.
OverlapSeeding ==
    [][OverflowStep =>
         /\ current_string' = IF overlap
                              THEN text[ck_i].t \o <<SP>> \o text[ck_i + 1].t
                              ELSE text[ck_i + 1].t
         /\ page_num' = text[ck_i + 1].n]_vars

\* the index of the most recent heading among the segments taken so far, 0
\* when there is none
LastHeading ==
    LET hs == {m \in 1..ck_i : StartsHash(text[m].t) /\ StrLen(text[m].t) > 1}
    IN IF hs = {} THEN 0 ELSE CHOOSE m \in hs : \A l \in hs : l <= m

\* the segments from the most recent heading on
SinceHeading == {j \in 1..ck_i : j >= LastHeading}

\* C28: with overlap, the accumulator - and so every chunk - holds only text
\* of the segments from the most recent heading on: the text seeded after an
\* overflow is the text of a segment that follows that heading.
OverlapWithinHeading ==
    (ck_pc = "loop" /\ overlap) =>
        \A k \in 1..Len(TextAtoms(current_string)) :
            \E j \in SinceHeading : text[j].t = <<TextAtoms(current_string)[k]>>

-----------------------------------------------------------------------------
(* detect_irrelevant_pages *)

\* a page as the page loop sees it: lang is the result of detect(text), None
\* when detect raised; the other fields say which patterns the text matches
\*   few_words     len(text.split()) < 100
\*   byline        by|author|copyright|all rights reserved
\*   notices       notices|acknowledgments
\*   toc_ind       one of toc_patterns              (has_toc_indicators)
\*   page_numbers  more than two dotted page-number lines (has_page_numbers)
PlainPage ==
    [lang |-> Some("en"), few_words |-> FALSE, byline |-> FALSE,
     notices |-> FALSE, toc_ind |-> FALSE, page_numbers |-> FALSE]

NoPageYet == [PlainPage EXCEPT !.lang = None]

\* the pages whose text the model varies; every other page is a plain page
Special(p) == p <= 3 \/ p \in 9..11 \/ p >= 19

\* the texts page p may have.  few_words and byline are read on page 0 only.
PageChoices(p, focus) ==
    IF focus = "toc" \/ ~Special(p) THEN {PlainPage}
    ELSE {[PlainPage EXCEPT !.lang = Some("de")], [PlainPage EXCEPT !.lang = None]}
         \cup [lang : {Some("en")},
               few_words : IF p = 0 THEN BOOLEAN ELSE {FALSE},
               byline : IF p = 0 THEN BOOLEAN ELSE {FALSE},
               notices : BOOLEAN, toc_ind : BOOLEAN, page_numbers : BOOLEAN]

TocPageLimit == 20

NoticesPageLimit == 10

\* page_num == 0 and (len(text.split()) < 100 or re.search(...))
TitlePage(p, pg) == p = 0 /\ (pg.few_words \/ pg.byline)

\* re.search(r'notices|acknowledgments', text) and page_num <= 10
NoticesPage(p, pg) == pg.notices /\ p <= NoticesPageLimit

\* (has_toc_indicators or (in_toc_section and has_page_numbers)) and page_num < 20
TocPage(p, pg, in_toc) ==
    (pg.toc_ind \/ (in_toc /\ pg.page_numbers)) /\ p < TocPageLimit

\* if not in_toc_section: pages_to_remove.update(range(0, page_num))
FrontMatterNone(p, in_toc) == {}

FrontMatter(p, in_toc) == IF ~in_toc THEN 0..(p - 1) ELSE {}

\* the branch taken when lang is not "en"
LangBranch(p, pg) == IF pg.lang = Some("en") THEN {} ELSE {p}

\* what one turn of the page loop adds to pages_to_remove
PageAdds(p, pg, in_toc) ==
    IF pg.lang = Some("en")
    THEN (IF TitlePage(p, pg) THEN {p} ELSE {})
         \cup (IF NoticesPage(p, pg) THEN {p} ELSE {})
         \cup (IF TocPage(p, pg, in_toc) THEN {p} \cup FrontMatter(p, in_toc) ELSE {})
    ELSE LangBranch(p, pg)

DetectPage ==
    /\ d_pc = "scan" /\ d_page_num < n_pages
    /\ \E pg \in PageChoices(d_page_num, d_focus) :
        /\ page' = pg
        /\ pages_to_remove' = pages_to_remove \cup PageAdds(d_page_num, pg, in_toc_section)
        /\ IF pg.lang = Some("en")
           THEN IF TocPage(d_page_num, pg, in_toc_section)
                THEN /\ in_toc_section' = TRUE
                     /\ consecutive_toc_count' = consecutive_toc_count + 1
                ELSE /\ in_toc_section' = FALSE
                     /\ consecutive_toc_count' = 0
           ELSE UNCHANGED <<in_toc_section, consecutive_toc_count>>
    /\ d_page_num' = d_page_num + 1
    /\ UNCHANGED <<d_focus, n_pages, d_pc, toc, toc_i>>
    /\ UNCHANGED notd

\* ---- extract_table_of_contents

\* the titles of table-of-contents entries: "index" matches the pattern of
\* line 146, "Intro" does not
Titles == {"index", "Intro"}

\* re.search(r'other resources|...|index|recycling|specifications', item[0])
Denylisted(title) == title = "index"

\* the page numbers an entry may carry in a document of n pages
TocPageNos(n) == 1..(n + 1)

\* doc.get_toc(): entries [level, title, page]
NativeEntries(n) == [level : {1, 2}, title : Titles, page : TocPageNos(n)]

\* the lines matching toc_pattern, with the font size of the span
SynthLines(n) == [title : Titles, page : TocPageNos(n), size : {10, 12}]

\* ebenen_dict: the rank of a font size among the sizes found, largest first
Ebene(size, lines) ==
    1 + Cardinality({z \in {lines[j].size : j \in 1..Len(lines)} : z > size})

\* the result for a document with the native table of contents `native` and
\* the matching lines `lines`
ExtractTableOfContents(native, lines) ==
    IF native # << >>
    THEN [j \in 1..Len(native) |->
            [title |-> native[j].title, page |-> native[j].page,
             depth |-> native[j].level]]
    ELSE [j \in 1..Len(lines) |->
            [title |-> lines[j].title, page |-> lines[j].page,
             depth |-> Ebene(lines[j].size, lines)]]

TocBound(focus) == IF focus = "toc" THEN MaxToc ELSE 1

DetectExtractToc ==
    /\ d_pc = "scan" /\ d_page_num = n_pages
    /\ \E native \in SeqsUpTo(NativeEntries(n_pages), TocBound(d_focus)),
          lines \in SeqsUpTo(SynthLines(n_pages), TocBound(d_focus)) :
        /\ native = << >> \/ lines = << >>
        /\ toc' = ExtractTableOfContents(native, lines)
    /\ toc_i' = 1
    /\ d_pc' = "toc"
    /\ UNCHANGED <<d_focus, n_pages, d_page_num, page, pages_to_remove,
                   in_toc_section, consecutive_toc_count>>
    /\ UNCHANGED notd

\* if not toc[j][-1] == item[-1] or toc[j][-1] > item[-1]
Cascades(dj, di) == ~(dj = di) \/ dj > di

\* what the turn of the entry loop for entry i adds to pages_to_remove
TocEntryAdds(tc, i, n) ==
    IF Denylisted(tc[i].title)
    THEN {tc[i].page}
         \cup {tc[j].page : j \in {k \in (i + 1)..Len(tc) : Cascades(tc[k].depth, tc[i].depth)}}
         \cup (IF i = Len(tc) THEN tc[i].page..(n - 1) ELSE {})
    ELSE {}

DetectTocEntry ==
    /\ d_pc = "toc" /\ toc_i <= Len(toc)
    /\ pages_to_remove' = pages_to_remove \cup TocEntryAdds(toc, toc_i, n_pages)
    /\ toc_i' = toc_i + 1
    /\ UNCHANGED <<d_focus, n_pages, d_pc, d_page_num, page, in_toc_section,
                   consecutive_toc_count, toc>>
    /\ UNCHANGED notd

DetectReturn ==
    /\ d_pc = "toc" /\ toc_i > Len(toc)
    /\ d_pc' = "done"
    /\ UNCHANGED <<d_focus, n_pages, d_page_num, page, pages_to_remove,
                   in_toc_section, consecutive_toc_count, toc, toc_i>>
    /\ UNCHANGED notd

DetectStart(focus, counts) ==
    /\ d_focus = focus
    /\ n_pages \in counts
    /\ d_pc = "scan"
    /\ d_page_num = 0
    /\ page = NoPageYet
    /\ pages_to_remove = {}
    /\ in_toc_section = FALSE
    /\ consecutive_toc_count = 0
    /\ toc = << >>
    /\ toc_i = 1

\* documents of 1, 2, 12 and MaxPages pages, the texts of the special pages
\* varied, at most one table-of-contents entry
InitScan == ChunkOff /\ PdfOff /\ QueryOff /\ StoreOff /\ DetectStart("scan", {1, 2, 12, MaxPages})

\* a document of 3 plain pages, every table of contents of up to MaxToc entries
InitToc == ChunkOff /\ PdfOff /\ QueryOff /\ StoreOff /\ DetectStart("toc", {3})

NextDetect ==
    \/ DetectPage
    \/ DetectExtractToc
    \/ DetectTocEntry
    \/ DetectReturn

SpecScan == InitScan /\ [][NextDetect]_vars

SpecToc == InitToc /\ [][NextDetect]_vars

-----------------------------------------------------------------------------
(* Properties of detect_irrelevant_pages *)

\* the pages of the entries after entry i that are at the depth of entry i or
\* shallower, and of those that are deeper
SameOrShallower(tc, i) ==
    {tc[j].page : j \in {k \in (i + 1)..Len(tc) : tc[k].depth <= tc[i].depth}}

Deeper(tc, i) ==
    {tc[j].page : j \in {k \in (i + 1)..Len(tc) : tc[k].depth > tc[i].depth}}

\* C7: when an entry matches the denylist, its turn of the entry loop excludes
\* the entry's start page and the start pages of the later entries at the same
\* or a shallower depth, and none of the later entries that are deeper.
TocCascade ==
    [][(d_pc = "toc" /\ toc_i <= Len(toc) /\ Denylisted(toc[toc_i].title)) =>
         LET claimed == {toc[toc_i].page} \cup SameOrShallower(toc, toc_i)
         IN /\ claimed \subseteq pages_to_remove'
            /\ \A q \in Deeper(toc, toc_i) \ claimed :
                   q \in pages_to_remove' => q \in pages_to_remove]_vars

\* C8: when the page loop finds a table-of-contents page while it is not
\* inside a table of contents (so also at the first such page, index p), every
\* page index 0..p is in the exclusion set, and stays in it until the return.
FrontMatterRule ==
    /\ [][(d_pc = "scan" /\ ~in_toc_section /\ in_toc_section') =>
            0..d_page_num \subseteq pages_to_remove']_vars
    /\ [][pages_to_remove \subseteq pages_to_remove']_vars

\* the 12-page document whose pages 2 and 3 are the first pages found to be
\* table-of-contents pages, just after page 3
FrontMatterWitness ==
    /\ n_pages = 12 /\ d_pc = "scan" /\ d_page_num = 4
    /\ in_toc_section /\ consecutive_toc_count = 2
    /\ {0, 1, 2, 3} \subseteq pages_to_remove

\* C9: a page whose language detection raised is not marked irrelevant by the
\* page loop on account of its language.
LangFailOpen ==
    (d_pc = "scan" /\ d_page_num > 0 /\ page.lang = None) =>
        (d_page_num - 1) \notin pages_to_remove

\* C10: the returned exclusion set holds only indices i, 0 <= i < page count.
ExclusionInRange ==
    d_pc = "done" => pages_to_remove \subseteq 0..(n_pages - 1)

\* the page loop examines a page in English that matches neither the title
\* page patterns nor the table-of-contents patterns
ScansOrdinaryPage ==
    /\ d_pc = "scan" /\ d_page_num' = d_page_num + 1
    /\ page'.lang = Some("en")
    /\ ~page'.few_words /\ ~page'.byline
    /\ ~page'.toc_ind /\ ~page'.page_numbers

\* C24: the notices rule marks a page if and only if the page matches the
\* notices/acknowledgments pattern and its index is one of 0..9; a matching
\* page at index 10 or later is not marked by the rule.
NoticesWindow ==
    [][ScansOrdinaryPage =>
         (d_page_num \in pages_to_remove' <=> (page'.notices /\ d_page_num \in 0..9))]_vars

\* the page just examined was detected as a table-of-contents page
LastPageWasToc ==
    /\ d_page_num > 0 /\ d_page_num - 1 < 20
    /\ page.lang = Some("en")
    /\ page.toc_ind \/ page.page_numbers

\* C25: the inside-TOC state is true when page p is examined only if page
\* p - 1 was itself detected as a table-of-contents page; a page that is not
\* detected as one, for whatever reason, ends the state, so the rule of the
\* dotted page-number lines marks page p only directly after such a page and
\* only for p < 20.
NoHysteresis ==
    /\ (d_pc = "scan" /\ in_toc_section) => LastPageWasToc
    /\ [][(/\ d_pc = "scan" /\ d_page_num' = d_page_num + 1
           /\ page'.lang = Some("en") /\ ~page'.toc_ind /\ ~page'.notices
           /\ d_page_num > 0 /\ d_page_num \in pages_to_remove')
          => (LastPageWasToc /\ page'.page_numbers /\ d_page_num < 20)]_vars

\* C30: the exclusion set uses one convention for page indices: the turn of
\* the entry loop for a denylisted entry that starts on page n, counted from
\* 1 as the table of contents reports it, adds the index n - 1, the index the
\* page loop uses for that page and process_pdf tests with page_no - 1.
OneIndexConvention ==
    [][(d_pc = "toc" /\ toc_i <= Len(toc) /\ toc_i' = toc_i + 1
        /\ Denylisted(toc[toc_i].title)) =>
           (toc[toc_i].page - 1) \in pages_to_remove']_vars

-----------------------------------------------------------------------------
(* process_pdf *)

\* An item of the converted document:
\*   kind        "title"           TextItem labelled TITLE
\*               "section_header"  SectionHeaderItem
\*               "list_group"      GroupItem labelled LIST or ORDERED_LIST
\*               "group"           GroupItem with another label
\*               "list_item"       ListItem labelled LIST_ITEM
\*               "text"            any other TextItem
\*               "table"           TableItem
\*   exp         item.label in DEFAULT_EXPORT_LABELS
\*   page        item.prov[0].page_no
\*   level       the level iterate_items yields with the item
\*   enumerated  item.enumerated
\*   bbox        item.prov[0].bbox: [width, height]
Item(kind, exp, pg, level, enumerated, w, h) ==
    [kind |-> kind, exp |-> exp, page |-> pg, level |-> level,
     enumerated |-> enumerated, bbox |-> [width |-> w, height |-> h]]

\* The strings process_pdf builds are sequences of tokens [k, i]:
\*   "text" i    item.text of item i          "table" i   its table as markdown
\*   "marker" i  item.marker of item i and a blank
\*   "dash" 0    "- "                         "hash" n    n times "#" and a blank
\*   "indent" n  n blanks, n > 0              "nl" 0      a newline
Tok(k, i) == [k |-> k, i |-> i]

\* " " * n
Blanks(n) == IF n > 0 THEN <<Tok("indent", n)>> ELSE << >>

\* str.strip(): leading blanks go (item texts are taken to end in no blank)
RECURSIVE Strip(_)
Strip(str) ==
    IF str # << >> /\ Head(str).k = "indent" THEN Strip(Tail(str)) ELSE str

\* sep.join(strs)
RECURSIVE Join(_, _)
Join(sep, strs) ==
    IF strs = << >> THEN << >>
    ELSE IF Len(strs) = 1 THEN strs[1]
    ELSE strs[1] \o sep \o Join(sep, Tail(strs))

indent == 4

\* (item.prov[0].page_no - 1) in pages_to_ignore
OnIgnoredPageOffByOne(item, pti) == item.page \in pti

OnIgnoredPage(item, pti) == (item.page - 1) \in pti

\* round(a / b, 2), in hundredths
Ratio(a, b) == (200 * a + b) \div (2 * b)

\* page_height_ratio >= 0.7 and page_width_ratio > 0.6, against the
\* dimensions of page 1
FullPage(item, sizes) ==
    /\ Ratio(item.bbox.height, sizes[1].height) >= 70
    /\ Ratio(item.bbox.width, sizes[1].width) > 60

\* get_fullpage_tables, the items from the k-th on
RECURSIVE FullpageLoop(_, _, _, _)
FullpageLoop(items, k, sizes, pti) ==
    IF k > Len(items) THEN pti
    ELSE LET item == items[k]
         IN IF ~item.exp \/ OnIgnoredPage(item, pti)
            THEN FullpageLoop(items, k + 1, sizes, pti)
            ELSE IF item.kind = "table" /\ FullPage(item, sizes)
            THEN FullpageLoop(items, k + 1, sizes, pti \cup {item.page - 1})
            ELSE FullpageLoop(items, k + 1, sizes, pti)

get_fullpage_tables(items, sizes, pti) ==
    IF Len(sizes) > 0 THEN FullpageLoop(items, 1, sizes, pti) ELSE pti

\* stringify_list: the buffer joined by newlines, with the list's page
stringify_list(cl, els, clp) ==
    Append(els, [text |-> Join(<<Tok("nl", 0)>>, cl), page |-> clp])

\* the marker of a section header
HeaderMarker(level) ==
    LET n == IF level < 6 THEN level ELSE 6
    IN IF n + 1 < 3 THEN Tok("hash", 2) ELSE Tok("hash", n)

\* the text buffered for a list item
ListItemText(item, k, lnl) ==
    Strip(Blanks(indent * (lnl - 1))
          \o <<IF item.enumerated THEN Tok("marker", k) ELSE Tok("dash", 0)>>
          \o <<Tok("text", k)>>)

PdfStart ==
    /\ p_pc = "start"
    /\ pages_to_ignore' = IF ~big_tables
                          THEN get_fullpage_tables(doc_items, doc_sizes, pages_to_ignore)
                          ELSE pages_to_ignore
    /\ elements' = << >>
    /\ p_pc' = "loop"
    /\ UNCHANGED <<doc_items, doc_sizes, tables, big_tables, p_i,
                   list_nesting_level, previous_level, in_list, current_list,
                   current_list_page>>
    /\ UNCHANGED notp

\* one turn of the loop over the items
PdfItem ==
    /\ p_pc = "loop" /\ p_i < Len(doc_items)
    /\ LET k == p_i + 1
           item == doc_items[k]
           \* lines 288-293
           lnl1 == IF item.level < previous_level
                   THEN (IF list_nesting_level - (previous_level - item.level) > 0
                         THEN list_nesting_level - (previous_level - item.level)
                         ELSE 0)
                   ELSE list_nesting_level
           \* lines 296-303
           leaving == /\ Len(elements) > 0
                      /\ item.kind \notin {"list_item", "list_group", "group"}
                      /\ in_list
           els1 == IF leaving /\ current_list # << >>
                   THEN stringify_list(current_list, elements, current_list_page)
                   ELSE elements
           cl1 == IF leaving THEN << >> ELSE current_list
           clp1 == IF leaving /\ current_list # << >> THEN None ELSE current_list_page
           il1 == IF leaving THEN FALSE ELSE in_list
           \* the flush at the head of the title, header, text and table branches
           flush == cl1 # << >> /\ il1
           els2 == IF flush THEN stringify_list(cl1, els1, clp1) ELSE els1
           pg == Some(item.page)
           emits(str) ==
               /\ elements' = Append(els2, [text |-> str, page |-> pg])
               /\ current_list' = IF flush THEN << >> ELSE cl1
               /\ current_list_page' = IF flush THEN None ELSE clp1
               /\ in_list' = FALSE
               /\ list_nesting_level' = lnl1
           skips ==
               /\ elements' = els1
               /\ current_list' = cl1
               /\ current_list_page' = clp1
               /\ in_list' = il1
               /\ list_nesting_level' = lnl1
       IN /\ previous_level' = item.level
          /\ IF ~item.exp \/ OnIgnoredPage(item, pages_to_ignore)
             THEN skips
             ELSE CASE item.kind = "title" -> emits(<<Tok("hash", 1), Tok("text", k)>>)
                    [] item.kind = "section_header" ->
                         emits(<<HeaderMarker(item.level), Tok("text", k)>>)
                    [] item.kind = "list_group" ->
                         /\ list_nesting_level' = lnl1 + 1
                         /\ in_list' = TRUE
                         /\ current_list_page' = pg
                         /\ elements' = els1
                         /\ current_list' = cl1
                    [] item.kind = "group" ->
                         /\ elements' = Append(els1, [text |-> <<Tok("text", k)>>, page |-> pg])
                         /\ current_list' = cl1
                         /\ current_list_page' = clp1
                         /\ in_list' = il1
                         /\ list_nesting_level' = lnl1
                    [] item.kind = "list_item" ->
                         /\ in_list' = TRUE
                         /\ current_list_page' = pg
                         /\ current_list' = Append(cl1, ListItemText(item, k, lnl1))
                         /\ elements' = els1
                         /\ list_nesting_level' = lnl1
                    [] item.kind = "text" -> emits(<<Tok("text", k)>>)
                    [] item.kind = "table" ->
                         IF tables THEN emits(<<Tok("table", k)>>) ELSE skips
    /\ p_i' = p_i + 1
    /\ UNCHANGED <<doc_items, doc_sizes, tables, big_tables, pages_to_ignore, p_pc>>
    /\ UNCHANGED notp

\* the remaining list items, and the return
PdfReturn ==
    /\ p_pc = "loop" /\ p_i = Len(doc_items)
    /\ elements' = IF current_list # << >>
                   THEN Append(elements, [text |-> Join(<< >>, current_list),
                                          page |-> current_list_page])
                   ELSE elements
    /\ p_pc' = "done"
    /\ UNCHANGED <<doc_items, doc_sizes, tables, big_tables, pages_to_ignore, p_i,
                   list_nesting_level, previous_level, in_list, current_list,
                   current_list_page>>
    /\ UNCHANGED notp

\* the items of the documents explored: every kind on pages 1 and 2, a text
\* item with a label that is not exported, a small table and a table that
\* fills page 1
PdfItems ==
    {Item(kind, TRUE, pg, 1, FALSE, 0, 0) :
        kind \in {"title", "section_header", "list_group", "group", "list_item", "text"},
        pg \in {1, 2}}
    \cup {Item("text", FALSE, 1, 1, FALSE, 0, 0),
          Item("table", TRUE, 1, 1, FALSE, 50, 50),
          Item("table", TRUE, 2, 1, FALSE, 50, 50),
          Item("table", TRUE, 1, 1, FALSE, 61, 70)}

PdfSizes == {[pg \in 1..2 |-> [width |-> 100, height |-> 100]]}

PdfStartState(items, sizes, ptis) ==
    /\ doc_items \in items
    /\ doc_sizes \in sizes
    /\ tables \in BOOLEAN
    /\ big_tables \in BOOLEAN
    /\ pages_to_ignore \in ptis
    /\ p_pc = "start"
    /\ p_i = 0
    /\ list_nesting_level = 0
    /\ previous_level = 0
    /\ in_list = FALSE
    /\ current_list = << >>
    /\ current_list_page = None
    /\ elements = << >>

InitPdf ==
    /\ ChunkOff /\ DetectOff /\ QueryOff /\ StoreOff
    /\ PdfStartState(SeqsUpTo(PdfItems, MaxItems), PdfSizes, {{}, {1}})

NextPdf ==
    \/ PdfStart
    \/ PdfItem
    \/ PdfReturn

SpecPdf == InitPdf /\ [][NextPdf]_vars

\* documents for the detection of full-page tables: on page 1 a small table,
\* a table of 70% of the height and 61% of the width, one of 69.6% of the
\* height, one of 60.4% of the width and a table with a label that is not
\* exported; on page 2 a table of 500 x 500; a paragraph
TableItems ==
    {Item("table", TRUE, 1, 1, FALSE, 500, 500),
     Item("table", TRUE, 1, 1, FALSE, 610, 700),
     Item("table", TRUE, 1, 1, FALSE, 610, 696),
     Item("table", TRUE, 1, 1, FALSE, 604, 700),
     Item("table", FALSE, 1, 1, FALSE, 610, 700),
     Item("table", TRUE, 2, 1, FALSE, 500, 500),
     Item("text", TRUE, 1, 1, FALSE, 0, 0)}

\* result.document.pages: page 1 of 1000 x 1000, page 2 of the same size or
\* of 500 x 500
TableSizes ==
    {[pg \in 1..2 |-> [width |-> IF pg = 1 THEN 1000 ELSE wh,
                       height |-> IF pg = 1 THEN 1000 ELSE wh]] : wh \in {1000, 500}}

InitTables ==
    /\ ChunkOff /\ DetectOff /\ QueryOff /\ StoreOff
    /\ PdfStartState(SeqsUpTo(TableItems, MaxItems), TableSizes, {{}, {0}, {1}})

SpecTables == InitTables /\ [][NextPdf]_vars

-----------------------------------------------------------------------------
(* Properties of process_pdf *)

\* the items whose text, marker or table a string holds
ItemsOf(str) == {str[j].i : j \in {m \in 1..Len(str) : str[m].k \in {"text", "marker", "table"}}}

\* C5: no emitted segment, and no buffered list item, holds text of an item
\* whose page index page_no - 1 is in the exclusion set, whatever the kind of
\* the item; a list on an excluded and a non-excluded page gives only the
\* items of the non-excluded page.
PageExclusion ==
    p_pc \in {"loop", "done"} =>
        /\ \A j \in 1..Len(elements) : \A k \in ItemsOf(elements[j].text) :
               (doc_items[k].page - 1) \notin pages_to_ignore
        /\ \A j \in 1..Len(current_list) : \A k \in ItemsOf(current_list[j]) :
               (doc_items[k].page - 1) \notin pages_to_ignore

\* a list with an item on page 1 and an item on the excluded page 2 has been
\* emitted with the first item alone
PageExclusionWitness ==
    /\ p_pc = "done" /\ pages_to_ignore = {1}
    /\ Len(doc_items) = 3
    /\ doc_items[1].kind = "list_group" /\ doc_items[1].page = 1
    /\ doc_items[2].kind = "list_item" /\ doc_items[2].page = 1
    /\ doc_items[3].kind = "list_item" /\ doc_items[3].page = 2
    /\ \E j \in 1..Len(elements) : ItemsOf(elements[j].text) = {2}

\* the loop takes an item that is neither a list item nor a group while list
\* items are buffered
LeavesList ==
    /\ p_pc = "loop" /\ p_i < Len(doc_items) /\ p_i' = p_i + 1
    /\ in_list /\ current_list # << >>
    /\ doc_items[p_i + 1].kind \notin {"list_item", "list_group", "group"}

\* C20: when the loop is in list mode with items buffered and takes an item
\* that is neither a list item nor a group - exported or not, on an excluded
\* page or not, with or without a segment emitted before - the buffer is
\* emitted as one segment and list mode ends with that item, so that no later
\* list item joins the buffered ones.
ListFlushOnLeave ==
    [][LeavesList =>
         /\ ~in_list'
         /\ current_list' = << >>
         /\ Len(elements') > Len(elements)
         /\ \A j \in 1..Len(current_list) :
                ItemsOf(current_list[j]) \subseteq ItemsOf(elements'[Len(elements) + 1].text)]_vars

\* a segment made of list items
IsListSegment(str) == \E m \in 1..Len(str) : str[m].k \in {"dash", "marker"}

\* the item whose text comes first in a string
FirstItem(str) ==
    str[CHOOSE m \in 1..Len(str) :
            /\ str[m].k \in {"text", "marker", "table"}
            /\ \A l \in 1..(m - 1) : str[l].k \notin {"text", "marker", "table"}].i

\* the pages a list that starts with item f may be tagged with: the page of f
\* and the page of the list group entered just before it
StartPages(f) ==
    {Some(doc_items[f].page)}
    \cup (IF f > 1 /\ doc_items[f - 1].kind = "list_group"
          THEN {Some(doc_items[f - 1].page)} ELSE {})

\* C21: every list segment carries the page of the start of its list, the
\* page of its first item or of the group entered before it, also when the
\* items of the list lie on several pages.
ListPageIsStart ==
    p_pc \in {"loop", "done"} =>
        \A j \in 1..Len(elements) :
            IsListSegment(elements[j].text) =>
                elements[j].page \in StartPages(FirstItem(elements[j].text))

\* C22: when the stream ends with list items buffered, they are emitted as the
\* last segment in the form of a flush in mid-stream: joined by newlines and
\* tagged with the page of the list.
EndOfStreamFlush ==
    [][(p_pc = "loop" /\ p_pc' = "done" /\ current_list # << >>) =>
         elements' = stringify_list(current_list, elements, current_list_page)]_vars

\* the loop buffers a list item
BuffersItem ==
    /\ p_pc = "loop" /\ p_i < Len(doc_items) /\ p_i' = p_i + 1
    /\ doc_items[p_i + 1].kind = "list_item"
    /\ Len(current_list') = Len(current_list) + 1

\* C23: a list item is buffered as 4 x (nesting depth - 1) blanks, its marker
\* if it is enumerated and a dash otherwise, and its text, so that an item at
\* depth 2 or more begins with blanks; the nesting counter is never negative.
ListItemRendering ==
    /\ [](list_nesting_level >= 0)
    /\ [][BuffersItem =>
            LET str == current_list'[Len(current_list')]
                d == list_nesting_level'
                lead == IF d >= 2 THEN <<[k |-> "indent", i |-> 4 * (d - 1)]>> ELSE << >>
            IN str = lead
                     \o <<IF doc_items[p_i + 1].enumerated
                          THEN [k |-> "marker", i |-> p_i + 1]
                          ELSE [k |-> "dash", i |-> 0]>>
                     \o <<[k |-> "text", i |-> p_i + 1]>>]_vars

\* the table fills its own page: its height is at least 70% of the height and
\* its width more than 60% of the width of the page it is on
FillsOwnPage(item) ==
    /\ 10 * item.bbox.height >= 7 * doc_sizes[item.page].height
    /\ 10 * item.bbox.width > 6 * doc_sizes[item.page].width

\* the page indices of the exported tables that fill their page and whose
\* page is not excluded already
FullPageTablePages ==
    {doc_items[k].page - 1 :
        k \in {m \in 1..Len(doc_items) :
                 /\ doc_items[m].kind = "table" /\ doc_items[m].exp
                 /\ (doc_items[m].page - 1) \notin pages_to_ignore
                 /\ FillsOwnPage(doc_items[m])}}

\* C26: get_fullpage_tables adds page index p exactly when some table on the
\* not yet excluded page p has a height of at least 70% and a width of more
\* than 60% of page p itself; the set returned is a superset of the set given,
\* and with big_tables process_pdf adds no page.
FullPageTableDetection ==
    [][(p_pc = "start" /\ p_pc' = "loop") =>
         /\ pages_to_ignore \subseteq pages_to_ignore'
         /\ pages_to_ignore' = IF big_tables THEN pages_to_ignore
                               ELSE pages_to_ignore \cup FullPageTablePages]_vars

\* C29: segments come in the order of the stream - no segment holds text of
\* an item that comes before an item of an earlier segment - no item has text
\* in two segments, and at the end every list item that is exported and not on
\* an excluded page has its text in a segment.
DocumentOrder ==
    p_pc \in {"loop", "done"} =>
        /\ \A j, m \in 1..Len(elements) : j < m =>
               \A a \in ItemsOf(elements[j].text) : \A b \in ItemsOf(elements[m].text) : a < b
        /\ p_pc = "done" =>
               \A k \in 1..Len(doc_items) :
                   (/\ doc_items[k].kind = "list_item" /\ doc_items[k].exp
                    /\ (doc_items[k].page - 1) \notin pages_to_ignore)
                   => \E j \in 1..Len(elements) : k \in ItemsOf(elements[j].text)

-----------------------------------------------------------------------------
(* retrieve_context and the statement of generate_sql_query *)

\* A row of a table: emb is chunk_embedding, lex is the relevance
\* ts_rank_cd(to_tsvector(chunk), plainto_tsquery(query)) of the chunk for the
\* query string of the call, 0 when the chunk does not match the query
\* (plainto_tsquery @@ to_tsvector is false), dev is deviceType.
Rows == [emb : {1, 2}, lex : {0, 1, 2}, dev : {"printer", "laptop"}]

\* the embeddings generate_embeddings returns
Embeddings == {1, 2, 3}

\* the text '[...]' of an embedding read as a vector(512): a component that
\* the single precision of the type cannot hold goes to the nearest one it
\* can (3 goes to 2)
Vector(e) == IF e = 3 THEN 2 ELSE e

\* embedding <=> chunk_embedding
Distance(a, b) == IF a < b THEN b - a ELSE a - b

\* scores are fractions [n, d] with d > 0
Frac(n, d) == [n |-> n, d |-> d]

FracGt(a, b) == a.n * b.d > b.n * a.d

FracGe(a, b) == a.n * b.d >= b.n * a.d

RrfK == 60

\* the SQL function rrf_score(rank) of the store: 1 / (k + rank)
rrf_score(rank) == Frac(1, RrfK + rank)

\* sum(...) takes the larger of two scores instead of adding them
SumOfTwoLarger(a, b) == IF FracGe(a, b) THEN a ELSE b

\* sum(...) of two scores
SumOfTwo(a, b) == Frac(a.n * b.d + b.n * a.d, a.d * b.d)

\* sum(rrf_score(searches.rank)) over a set of rows of searches
RECURSIVE SumScores(_)
SumScores(rs) ==
    IF rs = {} THEN Frac(0, 1)
    ELSE LET r == CHOOSE x \in rs : TRUE
         IN SumOfTwo(rrf_score(r.rank), SumScores(rs \ {r}))

BranchLimit == 40

ResultLimit == 5

\* WHERE deviceType = '{deviceType}': the manuals statement alone has it
\* Python's None where a device type is expected
NoDevice == "<None>"

\* '{deviceType}'.format(deviceType=deviceType)
Format(dev) == IF dev = NoDevice THEN "None" ELSE dev

Filtered(table_name, tbl, dev) ==
    {i \in 1..Len(tbl) : table_name = "manuals" => tbl[i].dev = Format(dev)}

\* rank() OVER (ORDER BY embedding <=> chunk_embedding DESC)
VectorRankFarthest(tbl, ids, qe, i) ==
    1 + Cardinality({j \in ids : Distance(qe, tbl[j].emb) > Distance(qe, tbl[i].emb)})

\* rank() OVER (ORDER BY embedding <=> chunk_embedding)
VectorRank(tbl, ids, qe, i) ==
    1 + Cardinality({j \in ids : Distance(qe, tbl[j].emb) < Distance(qe, tbl[i].emb)})

\* rank() OVER (ORDER BY ts_rank_cd(...) DESC)
LexicalRank(tbl, ids, i) == 1 + Cardinality({j \in ids : tbl[j].lex > tbl[i].lex})

\* LIMIT k without the limit
TopRankedAll(rs, k) == {rs}

\* ORDER BY rank LIMIT k: the sets of rows the store may keep; rows of equal
\* rank at the cut are kept in any choice
TopRanked(rs, k) ==
    LET n == IF Cardinality(rs) < k THEN Cardinality(rs) ELSE k
        must == {x \in rs : Cardinality({y \in rs : y.rank <= x.rank}) <= n}
        tied == {x \in rs \ must : Cardinality({y \in rs : y.rank < x.rank}) < n}
    IN {must \cup some : some \in {t \in SUBSET tied : Cardinality(t) = n - Cardinality(must)}}

VectorBranch(table_name, tbl, qe, dev) ==
    LET ids == Filtered(table_name, tbl, dev)
    IN TopRanked({[id |-> i, rank |-> VectorRank(tbl, ids, qe, i), branch |-> "vector"] :
                      i \in ids}, BranchLimit)

LexicalBranch(table_name, tbl, dev) ==
    LET ids == {i \in Filtered(table_name, tbl, dev) : tbl[i].lex > 0}
    IN TopRanked({[id |-> i, rank |-> LexicalRank(tbl, ids, i), branch |-> "lexical"] :
                      i \in ids}, BranchLimit)

\* GROUP BY searches.id ...: one row per id, with its score
Grouped(srch) ==
    {[id |-> i, score |-> SumScores({r \in srch : r.id = i})] : i \in {r.id : r \in srch}}

\* ORDER BY score DESC LIMIT limit: the lists the store may return; rows of
\* equal score come in any order
RECURSIVE Ordered(_, _)
Ordered(groups, limit) ==
    IF limit = 0 \/ groups = {} THEN {<< >>}
    ELSE UNION {{<<g>> \o rest : rest \in Ordered(groups \ {g}, limit - 1)} :
                    g \in {x \in groups : \A y \in groups : FracGe(x.score, y.score)}}

\* cur.execute(manuals_query); manuals = cur.fetchall()
QueryManuals ==
    /\ q_pc = "manuals"
    /\ \E v \in VectorBranch("manuals", db.manuals, Vector(query_embedding), deviceType),
          l \in LexicalBranch("manuals", db.manuals, deviceType) :
        /\ searches' = v \cup l
        /\ \E res \in Ordered(Grouped(v \cup l), ResultLimit) : manuals' = res
    /\ q_pc' = "tickets"
    /\ UNCHANGED <<db, deviceType, query_embedding, tickets>>
    /\ UNCHANGED <<svars, notq>>

\* cur.execute(ticket_query); tickets = cur.fetchall()
QueryTickets ==
    /\ q_pc = "tickets"
    /\ \E v \in VectorBranch("tickets", db.tickets, Vector(query_embedding), deviceType),
          l \in LexicalBranch("tickets", db.tickets, deviceType) :
        /\ searches' = v \cup l
        /\ \E res \in Ordered(Grouped(v \cup l), ResultLimit) : tickets' = res
    /\ q_pc' = "return"
    /\ UNCHANGED <<db, deviceType, query_embedding, manuals>>
    /\ UNCHANGED <<svars, notq>>

\* finally: client.close(), and then the return or the exception raised again
QueryReturn ==
    /\ q_pc = "return"
    /\ q_pc' = "done"
    /\ client' = Close(client)
    /\ closes' = closes + 1
    /\ outcome' = IF failed = "none" THEN "returned" ELSE "raised"
    /\ UNCHANGED <<db, deviceType, query_embedding, searches, manuals, tickets, failed>>
    /\ UNCHANGED notq

\* one of the two tables holds up to MaxRows rows, the other is empty
InitQuery ==
    /\ ChunkOff /\ DetectOff /\ PdfOff /\ IngestOff /\ BuildOff
    /\ client = "open"
    /\ closes = 0
    /\ outcome = "running"
    /\ failed = "none"
    /\ \E tbl \in SeqsUpTo(Rows, MaxRows) :
           db \in {[manuals |-> tbl, tickets |-> << >>], [manuals |-> << >>, tickets |-> tbl]}
    /\ deviceType \in {"printer", "laptop"}
    /\ query_embedding \in {1, 2}
    /\ q_pc = "manuals"
    /\ searches = {}
    /\ manuals = << >>
    /\ tickets = << >>

NextQuery ==
    \/ QueryManuals
    \/ QueryTickets
    \/ QueryReturn

SpecQuery == InitQuery /\ [][NextQuery]_vars

-----------------------------------------------------------------------------
(* Properties of the hybrid query *)

InBranch(i, b) == \E r \in searches : r.id = i /\ r.branch = b

RankIn(i, b) == (CHOOSE r \in searches : r.id = i /\ r.branch = b).rank

OtherBranch(b) == IF b = "vector" THEN "lexical" ELSE "vector"

\* the list fetched by the statement run last
Fetched == IF q_pc = "tickets" THEN manuals ELSE tickets

\* C6: in the list a statement returns, a row found by both branches has a
\* strictly higher score than a row found by one branch alone with the same
\* rank there.
RrfFusionOrdering ==
    q_pc \in {"tickets", "return"} =>
        \A a, b \in 1..Len(Fetched) :
            \A br \in {"vector", "lexical"} :
                LET A == Fetched[a].id
                    B == Fetched[b].id
                IN (/\ InBranch(A, "vector") /\ InBranch(A, "lexical")
                    /\ InBranch(B, br) /\ ~InBranch(B, OtherBranch(br))
                    /\ RankIn(B, br) = RankIn(A, br))
                   => FracGt(Fetched[a].score, Fetched[b].score)

\* row A has vector-rank 1 and lexical-rank 1, row B has vector-rank 1 only
RrfFusionWitness ==
    /\ q_pc = "tickets"
    /\ \E a, b \in 1..Len(manuals) :
        /\ InBranch(manuals[a].id, "vector") /\ RankIn(manuals[a].id, "vector") = 1
        /\ InBranch(manuals[a].id, "lexical") /\ RankIn(manuals[a].id, "lexical") = 1
        /\ InBranch(manuals[b].id, "vector") /\ RankIn(manuals[b].id, "vector") = 1
        /\ ~InBranch(manuals[b].id, "lexical")
        /\ a < b

-----------------------------------------------------------------------------
(* add_manual, add_manual_chunks_to_db, add_ticket_to_db and the steps of   *)
(* retrieve_context around its two statements                               *)

\* ts_rank_cd of a chunk for the query: the query's word is the text "x", and
\* the relevance grows with its occurrences
RECURSIVE TsRank(_)
TsRank(chunk) ==
    IF chunk = << >> THEN 0
    ELSE LET r == TsRank(Tail(chunk)) + (IF Head(chunk) = "x" THEN 1 ELSE 0)
         IN IF r > 2 THEN 2 ELSE r

\* the row of a table for an entry of chunk_list
RowOf(dp) == [emb |-> Vector(dp.chunk_embedding), lex |-> TsRank(dp.chunk), dev |-> dp.deviceType]

\* the table after the first n entries have been inserted
Inserted(tbl, dps, n) == tbl \o [j \in 1..n |-> RowOf(dps[j])]

TableOf(op) == IF op = "add_manual" THEN "manuals" ELSE "tickets"

\* chunks = naive_chunking(elements); add_manual_chunks_to_db(chunks, ...)
AddManualChunks ==
    /\ i_op = "add_manual" /\ i_pc = "chunking" /\ ck_pc = "done"
    /\ chunks' = output
    /\ i_pc' = "connect"
    /\ UNCHANGED <<i_op, devicetype, chunk_list, added_docs_count, db, svars, noti>>

\* client = get_psycopg_client()
IngestConnect ==
    /\ i_pc = "connect"
    /\ client' = "open"
    /\ i_pc' = "ddl"
    /\ UNCHANGED <<closes, outcome, failed>>
    /\ UNCHANGED <<i_op, chunks, devicetype, chunk_list, added_docs_count, db, noti>>

\* get_psycopg_client() raises inside the try: client stays unbound
IngestConnectFails ==
    /\ i_pc = "connect"
    /\ failed' = "connect"
    /\ i_pc' = "finally"
    /\ UNCHANGED <<client, closes, outcome>>
    /\ UNCHANGED <<i_op, chunks, devicetype, chunk_list, added_docs_count, db, noti>>

\* CREATE EXTENSION, register_vector, CREATE TABLE IF NOT EXISTS
IngestDdl ==
    /\ i_pc = "ddl"
    /\ i_pc' = "embed"
    /\ UNCHANGED <<i_op, chunks, devicetype, chunk_list, added_docs_count, db, svars, noti>>

\* the embedding of the next chunk, and its entry dp
IngestEmbed ==
    /\ i_pc = "embed" /\ Len(chunk_list) < Len(chunks)
    /\ \E e \in Embeddings :
        chunk_list' = Append(chunk_list,
                             [chunk |-> chunks[Len(chunk_list) + 1].text,
                              chunk_embedding |-> e,
                              deviceType |-> devicetype])
    /\ UNCHANGED <<i_op, i_pc, chunks, devicetype, added_docs_count, db, svars, noti>>

\* cur.executemany(query, chunk_list), for a ticket client.execute(INSERT ...)
IngestInsert ==
    /\ i_pc = "embed" /\ Len(chunk_list) = Len(chunks)
    /\ db' = [db EXCEPT ![TableOf(i_op)] = Inserted(@, chunk_list, Len(chunk_list))]
    /\ i_pc' = "finally"
    /\ UNCHANGED <<i_op, chunks, devicetype, chunk_list, added_docs_count, svars, noti>>

\* a statement or generate_embeddings raises; a failing executemany may have
\* written the rows before the one that failed
IngestFails ==
    /\ \/ /\ i_pc = "ddl"
          /\ failed' = "statement"
          /\ db' = db
       \/ /\ i_pc = "embed" /\ Len(chunk_list) < Len(chunks)
          /\ failed' = "embedding"
          /\ db' = db
       \/ /\ i_pc = "embed" /\ Len(chunk_list) = Len(chunks)
          /\ failed' = "statement"
          /\ \E n \in 0..Len(chunk_list) :
                /\ n < Len(chunk_list) \/ n = 0
                /\ db' = [db EXCEPT ![TableOf(i_op)] = Inserted(@, chunk_list, n)]
    /\ i_pc' = "finally"
    /\ UNCHANGED <<client, closes, outcome>>
    /\ UNCHANGED <<i_op, chunks, devicetype, chunk_list, added_docs_count, noti>>

\* except Exception as e: print(e), then finally: client.close(), which
\* raises UnboundLocalError when client was never bound
IngestFinally ==
    /\ i_pc = "finally"
    /\ IF client = "unbound"
       THEN /\ outcome' = "raised"
            /\ i_pc' = "done"
            /\ UNCHANGED <<client, closes>>
       ELSE /\ client' = Close(client)
            /\ closes' = closes + 1
            /\ outcome' = "returned"
            /\ i_pc' = IF i_op = "add_manual" THEN "count" ELSE "done"
    /\ UNCHANGED <<i_op, chunks, devicetype, chunk_list, added_docs_count, db, failed, noti>>

\* added_docs_count += 1
AddManualCount ==
    /\ i_pc = "count"
    /\ added_docs_count' = added_docs_count + 1
    /\ i_pc' = "done"
    /\ UNCHANGED <<i_op, chunks, devicetype, chunk_list, db, svars, noti>>

NextIngest ==
    \/ AddManualChunks
    \/ IngestConnect
    \/ IngestConnectFails
    \/ IngestDdl
    \/ IngestEmbed
    \/ IngestInsert
    \/ IngestFails
    \/ IngestFinally
    \/ AddManualCount

\* NewTicket.model_validate accepts any value as deviceType
model_validate_any(dev) == TRUE

\* NewTicket.model_validate(new_ticket): deviceType is a required str
model_validate(dev) == dev # NoDevice

\* process_ticket, once the operation before it has ended: the ticket is
\* validated, and retrieve_context is called with its deviceType
process_ticket ==
    /\ i_pc = "done" /\ q_pc = "off"
    /\ deviceType' \in {"printer", "laptop", NoDevice}
    /\ client' = "unbound"
    /\ closes' = 0
    /\ IF model_validate(deviceType')
       THEN /\ q_pc' = "connect"
            /\ outcome' = "running"
            /\ failed' = "none"
       ELSE /\ q_pc' = "done"
            /\ outcome' = "raised"
            /\ failed' = "validation"
    /\ UNCHANGED <<db, query_embedding, searches, manuals, tickets, notq>>

\* client = get_psycopg_client(), outside the try
RetrieveConnect ==
    /\ q_pc = "connect"
    /\ client' = "open"
    /\ q_pc' = "register"
    /\ UNCHANGED <<closes, outcome, failed>>
    /\ UNCHANGED <<db, deviceType, query_embedding, searches, manuals, tickets, notq>>

RetrieveConnectFails ==
    /\ q_pc = "connect"
    /\ failed' = "connect"
    /\ outcome' = "raised"
    /\ q_pc' = "done"
    /\ UNCHANGED <<client, closes>>
    /\ UNCHANGED <<db, deviceType, query_embedding, searches, manuals, tickets, notq>>

\* register_vector(client)
RetrieveRegister ==
    /\ q_pc = "register"
    /\ q_pc' = "embed"
    /\ UNCHANGED <<db, deviceType, query_embedding, searches, manuals, tickets, svars, notq>>

\* generate_embeddings(query_string), and the two statements are built
RetrieveEmbed ==
    /\ q_pc = "embed"
    /\ query_embedding' \in Embeddings
    /\ q_pc' = "manuals"
    /\ UNCHANGED <<db, deviceType, searches, manuals, tickets, svars, notq>>

\* a step inside the try raises: except Exception as e: raise e
RetrieveFails ==
    /\ q_pc \in {"register", "embed", "manuals", "tickets"}
    /\ failed' = IF q_pc = "embed" THEN "embedding" ELSE "statement"
    /\ q_pc' = "return"
    /\ UNCHANGED <<client, closes, outcome>>
    /\ UNCHANGED <<db, deviceType, query_embedding, searches, manuals, tickets, notq>>

NextRetrieve ==
    \/ process_ticket
    \/ RetrieveConnect
    \/ RetrieveConnectFails
    \/ RetrieveRegister
    \/ RetrieveEmbed
    \/ RetrieveFails
    \/ QueryManuals
    \/ QueryTickets
    \/ QueryReturn

\* the documents add_manual is run on: element streams of up to MaxDocSegs
\* segments, the empty stream among them
DocSegments == [t : {Str("h"), Str("a"), Str("x")}, n : {Some(1)}]

\* the summaries add_ticket_to_db is run on
TicketChunks == {<<[text |-> Str(a), page_no |-> None]>> : a \in {"a", "x"}}

\* the stores the operations start from: one table holds up to MaxStoreRows
\* rows, the other is empty
StoreTables ==
    UNION {{[manuals |-> tbl, tickets |-> << >>], [manuals |-> << >>, tickets |-> tbl]} :
               tbl \in SeqsUpTo(Rows, MaxStoreRows)}

\* the stores an operation that writes starts from
WrittenStores ==
    {[manuals |-> << >>, tickets |-> << >>],
     [manuals |-> <<[emb |-> 1, lex |-> 1, dev |-> "printer"]>>,
      tickets |-> <<[emb |-> 2, lex |-> 0, dev |-> "laptop"]>>]}

InitStore ==
    /\ DetectOff /\ PdfOff /\ ConnOff /\ BuildOff
    /\ i_op \in {"none", "add_manual", "add_ticket"}
    /\ db \in IF i_op = "none" THEN StoreTables ELSE WrittenStores
    /\ deviceType = "printer"
    /\ query_embedding = 1
    /\ q_pc = "off"
    /\ searches = {}
    /\ manuals = << >>
    /\ tickets = << >>
    /\ devicetype \in {"printer", "laptop"}
    /\ chunk_list = << >>
    /\ added_docs_count = 0
    /\ current_string = << >>
    /\ last_str = << >>
    /\ page_num = None
    /\ output_dict = << >>
    /\ output = << >>
    /\ ck_i = 0
    /\ overlap = TRUE
    /\ CASE i_op = "add_manual" ->
              /\ text \in SeqsUpTo(DocSegments, MaxDocSegs)
              /\ ck_pc = "loop"
              /\ chunks = << >>
              /\ i_pc = "chunking"
         [] i_op = "add_ticket" ->
              /\ text = << >>
              /\ ck_pc = "off"
              /\ chunks \in TicketChunks
              /\ i_pc = "connect"
         [] OTHER ->
              /\ text = << >>
              /\ ck_pc = "off"
              /\ chunks = << >>
              /\ devicetype = "printer"
              /\ i_pc = "done"

NextStore ==
    \/ NextChunk
    \/ NextIngest
    \/ NextRetrieve

SpecStore == InitStore /\ [][NextStore]_vars

\* every step of an operation is taken in the end
SpecStoreFair == SpecStore /\ WF_vars(NextStore)

-----------------------------------------------------------------------------
(* Properties of the operations on the store *)

\* the operation on the store has returned or raised
Ended == outcome # "running"

ReleasedAtExit == Ended => client # "open" /\ closes = (IF client = "closed" THEN 1 ELSE 0)

\* C11: a connection acquired by retrieve_context, add_manual_chunks_to_db or
\* add_ticket_to_db is closed in the end, and when the operation returns or
\* raises it has been closed exactly once, after success and after a failure
\* of the embedding or of a statement alike.
ConnectionReleased == []ReleasedAtExit /\ (client = "open" ~> client = "closed")

\* retrieve_context raised for a failed embedding, with its connection closed
ConnectionReleasedWitness ==
    /\ q_pc = "done" /\ failed = "embedding" /\ outcome = "raised"
    /\ client = "closed" /\ closes = 1

\* C12: when connecting or a statement fails in retrieve_context,
\* add_manual_chunks_to_db or add_ticket_to_db, the operation does not return
\* normally, and add_manual does not count the document.
StoreFailurePropagates ==
    /\ Ended /\ failed # "none" => outcome = "raised"
    /\ q_pc = "off" /\ failed # "none" => added_docs_count = 0

EmptyDocumentRejected ==
    i_op = "add_manual" /\ text = << >> /\ q_pc = "off" =>
        /\ db \in WrittenStores
        /\ added_docs_count = 0
        /\ i_pc = "done" => outcome = "raised"

-----------------------------------------------------------------------------
(* generate_sql_query: the query string on its way into the statement *)

\* the characters of the query strings explored
Chars == {"a", " ", "\"", "\\", "%", "_", "'", "\n", "\t"}

\* str.maketrans({'"': '', "\\": '', "%": '', "_": '', "'": ''})
translate_table == [c \in {"\"", "\\", "%", "_", "'"} |-> << >>]

\* str.translate(table) keeps every character
translate_keeps(str, table) == str

\* str.translate(table)
RECURSIVE translate(_, _)
translate(str, table) ==
    IF str = << >> THEN << >>
    ELSE (IF Head(str) \in DOMAIN table THEN table[Head(str)] ELSE <<Head(str)>>)
         \o translate(Tail(str), table)

\* str.replace(old, new) for one-character old and new
replace(str, old, new) == [j \in 1..Len(str) |-> IF str[j] = old THEN new ELSE str[j]]

\* the characters of a device type
DeviceChars == {"a", "'", "\n"}

\* """WHERE deviceType = '{deviceType}' """.format(deviceType=deviceType) in
\* the vector branch and """ deviceType ='{deviceType}' AND """ in the lexical
\* branch, for the table manuals; the text around the argument is one element
DeviceFilters(tbl, dev) ==
    IF tbl = "manuals"
    THEN <<<<"WHERE deviceType = ", "'">> \o dev \o <<"'", " ">>,
           <<" deviceType =", "'">> \o dev \o <<"'", " AND ">>>>
    ELSE << >>

\* generate_sql_query, as far as its string arguments go: the query string is
\* translated and interpolated by .format(search_string=query_str), the
\* device type is interpolated as it is, and the statement ends with
\* sql_query.replace("\n", " ").replace("\t", " ")
generate_sql_query ==
    /\ g_pc = "start"
    /\ query_str' = translate(query_str, translate_table)
    /\ sql_query' = replace(replace(query_str', "\n", " "), "\t", " ")
    /\ sql_where' = [b \in 1..Len(DeviceFilters(g_table_name, g_deviceType)) |->
                        replace(replace(DeviceFilters(g_table_name, g_deviceType)[b],
                                        "\n", " "), "\t", " ")]
    /\ g_pc' = "done"
    /\ UNCHANGED <<query_string, g_table_name, g_deviceType>>
    /\ UNCHANGED notg

InitBuild ==
    /\ ChunkOff /\ DetectOff /\ PdfOff /\ QueryOff /\ ConnOff /\ IngestOff
    /\ query_string \in SeqsUpTo(Chars, MaxQueryLen)
    /\ query_str = query_string
    /\ sql_query = << >>
    /\ g_pc = "start"
    /\ g_table_name \in {"manuals", "tickets"}
    /\ g_deviceType \in SeqsUpTo(DeviceChars, MaxDeviceLen)
    /\ sql_where = << >>

NextBuild == generate_sql_query

SpecBuild == InitBuild /\ [][NextBuild]_vars

-----------------------------------------------------------------------------
(* Properties of the sanitization *)

Forbidden == {"\"", "\\", "%", "_", "'"}

Kept(c) == c \notin Forbidden

Blanked(c) == IF c \in {"\n", "\t"} THEN " " ELSE c

Stripped(str) == SelectSeq(str, Kept)

\* C15 as stated: the search string of the statement is the query string
\* without its double quotes, backslashes, percents, underscores and
\* apostrophes and with every other character kept.
SanitizedVerbatim ==
    g_pc = "done" => sql_query = Stripped(query_string)

\* C15: the search string of the statement is the query string without its
\* double quotes, backslashes, percents, underscores and apostrophes, with
\* newlines and tabs turned into blanks and every other character kept in
\* order; it holds none of the five characters, and sanitizing it again
\* changes nothing.
Sanitized ==
    g_pc = "done" =>
        /\ sql_query = [j \in 1..Len(Stripped(query_string)) |-> Blanked(Stripped(query_string)[j])]
        /\ \A j \in 1..Len(sql_query) : sql_query[j] \notin Forbidden
        /\ Stripped(query_str) = query_str
        /\ Stripped(sql_query) = sql_query

\* a query string with an apostrophe and a newline has been interpolated
SanitizedWitness ==
    /\ g_pc = "done"
    /\ \E j \in 1..Len(query_string) : query_string[j] = "'"
    /\ \E j \in 1..Len(query_string) : query_string[j] = "\n"
    /\ Len(sql_query) = Len(query_string) - 1


\* the statement text with every string literal replaced by "literal": a
\* literal runs from an apostrophe to the next apostrophe that is not doubled
RECURSIVE Skeleton(_, _)
Skeleton(str, inside) ==
    IF str = << >> THEN (IF inside THEN <<"unterminated">> ELSE << >>)
    ELSE IF ~inside
    THEN (IF Head(str) = "'" THEN Skeleton(Tail(str), TRUE)
          ELSE <<Head(str)>> \o Skeleton(Tail(str), FALSE))
    ELSE IF Head(str) # "'" THEN Skeleton(Tail(str), TRUE)
    ELSE IF Len(str) >= 2 /\ str[2] = "'" THEN Skeleton(Tail(Tail(str)), TRUE)
    ELSE <<"literal">> \o Skeleton(Tail(str), FALSE)

\* C27: the query string and the device type reach the statement without the
\* characters " \ % _ ': whatever the device type, each filter on it is the
\* same text around one string literal, and the literal holds none of the
\* five characters.
InterpolatedSafely ==
    g_pc = "done" =>
        /\ \A j \in 1..Len(sql_query) : sql_query[j] \notin Forbidden
        /\ g_table_name = "manuals" =>
             /\ Skeleton(sql_where[1], FALSE) = <<"WHERE deviceType = ", "literal", " ">>
             /\ Skeleton(sql_where[2], FALSE) = <<" deviceType =", "literal", " AND ">>
             /\ \A b \in 1..2 : \A j \in 3..(Len(sql_where[b]) - 2) :
                    sql_where[b][j] \notin Forbidden

-----------------------------------------------------------------------------
(* The statements on tables longer than their limits *)

\* a table of n rows: row i lies at distance about i from the query and has
\* relevance i for it, so that ranks differ; vtie and ltie make the two rows
\* at the cut of a branch equal, lexmode says which rows match the query
\* string and devmode which rows belong to the printer
LongTable(n, vtie, ltie, lexmode, devmode) ==
    [i \in 1..n |->
        [emb |-> IF vtie /\ i = n THEN n - 1 ELSE i,
         lex |-> CASE lexmode = "none" -> 0
                   [] lexmode = "even" -> IF i % 2 = 0 THEN i ELSE 0
                   [] OTHER -> IF ltie /\ i = 1 THEN 2 ELSE i,
         dev |-> IF devmode = "all" \/ i % 2 = 1 THEN "printer" ELSE "laptop"]]

LongSizes == {ResultLimit + 1} \cup {BranchLimit + over : over \in 0..MaxOver}

LongTables ==
    {LongTable(n, vtie, ltie, lexmode, devmode) :
        n \in LongSizes, vtie \in BOOLEAN, ltie \in BOOLEAN,
        lexmode \in {"none", "even", "all"}, devmode \in {"all", "odd"}}

InitLimits ==
    /\ ChunkOff /\ DetectOff /\ PdfOff /\ IngestOff /\ BuildOff
    /\ client = "open"
    /\ closes = 0
    /\ outcome = "running"
    /\ failed = "none"
    /\ \E tbl \in LongTables :
           db \in {[manuals |-> tbl, tickets |-> << >>], [manuals |-> << >>, tickets |-> tbl]}
    /\ deviceType \in {"printer", "laptop"}
    /\ query_embedding \in {1, 2}
    /\ q_pc = "manuals"
    /\ searches = {}
    /\ manuals = << >>
    /\ tickets = << >>

SpecLimits == InitLimits /\ [][NextQuery]_vars

\* the statement run last, and what it has fetched
LastTable == IF q_pc = "tickets" THEN "manuals" ELSE "tickets"

Branch(b) == {r \in searches : r.branch = b}

\* the rows of the table that a branch ranks
Candidates(b) ==
    {i \in 1..Len(db[LastTable]) :
        /\ LastTable = "manuals" => db.manuals[i].dev = deviceType
        /\ b = "lexical" => db[LastTable][i].lex > 0}

\* row i is before row j in the order of branch b
Better(b, i, j) ==
    IF b = "vector"
    THEN Distance(Vector(query_embedding), db[LastTable][i].emb)
             < Distance(Vector(query_embedding), db[LastTable][j].emb)
    ELSE db[LastTable][i].lex > db[LastTable][j].lex

LimitedList(res) ==
    /\ Len(res) <= ResultLimit
    /\ \A a, b \in 1..Len(res) : a < b =>
           /\ res[a].id # res[b].id
           /\ res[a].score.n * res[b].score.d >= res[b].score.n * res[a].score.d

-----------------------------------------------------------------------------
(* Insertion followed by retrieval *)

\* the table the operation before the retrieval has written to
Written == db[TableOf(i_op)]

\* the id of the row of the j-th entry of chunk_list when the insert has
\* written all of them
IdOf(j) == Len(Written) - Len(chunk_list) + j

\* the j-th entry of chunk_list stands in the table, and the statement on that
\* table has been run with the entry's embedding as the query vector
RetrievedWith(j) ==
    /\ i_op \in {"add_manual", "add_ticket"} /\ failed = "none"
    /\ LastTable = TableOf(i_op) /\ q_pc \in {"tickets", "return"}
    /\ IdOf(j) >= 1
    /\ Written[IdOf(j)].emb = Vector(chunk_list[j].chunk_embedding)
    /\ Written[IdOf(j)].dev = chunk_list[j].deviceType
    /\ chunk_list[j].chunk_embedding = query_embedding

RankedFirst(id) == \E r \in Branch("vector") : r.id = id /\ r.rank = 1

\* C17 as stated: any retrieval on the corpus with the chunk's embedding as
\* query vector gives the chunk vector-rank 1.
RoundTripAnyFilter ==
    \A j \in 1..Len(chunk_list) : RetrievedWith(j) => RankedFirst(IdOf(j))

\* C17: after a chunk has been inserted with embedding e, a retrieval whose
\* query vector equals e - for manuals, one whose device type is the chunk's -
\* gives the chunk vector-rank 1 at distance 0; the chunk is in the vector
\* branch unless 40 other rows of rank 1 fill it.
RoundTrip ==
    \A j \in 1..Len(chunk_list) :
        RetrievedWith(j) /\ (i_op = "add_manual" => chunk_list[j].deviceType = deviceType) =>
            /\ Distance(Vector(query_embedding), Written[IdOf(j)].emb) = 0
            /\ \A r \in Branch("vector") : r.id = IdOf(j) => r.rank = 1
            /\ \/ RankedFirst(IdOf(j))
               \/ /\ Cardinality(Branch("vector")) = BranchLimit
                  /\ \A r \in Branch("vector") : r.rank = 1

\* add_manual_chunks_to_db has inserted a chunk with embedding 3 next to a row
\* that was there, and the manuals statement run with the query vector 3 and
\* the chunk's device type ranks the chunk first
RoundTripWitness ==
    /\ i_op = "add_manual" /\ Len(db.manuals) > Len(chunk_list)
    /\ \E j \in 1..Len(chunk_list) :
        /\ RetrievedWith(j) /\ chunk_list[j].deviceType = deviceType
        /\ query_embedding = 3
        /\ RankedFirst(IdOf(j))

====
